---------------------------- MODULE Spec2Model ----------------------------
(***************************************************************************)
(* Model of txt_to_jsonl/cli_doctxt.py: the line scanner iter_doc_blocks,  *)
(* the record builder generate_records_for_file and the sharded writer     *)
(* write_sharded_jsonl.                                                    *)
(*                                                                         *)
(* Text is modelled character by character: a Python str is a sequence of  *)
(* one-character strings, a line is such a sequence ending in "\n", a file *)
(* is a sequence of lines.  Optional[str] is a sequence of length 0 (None) *)
(* or 1 (the value).                                                       *)
(***************************************************************************)
EXTENDS Integers, Sequences, FiniteSets, TLC

VARIABLES
    \* ---- generate_records_for_file / iter_doc_blocks ----
    file,             \* the lines of the input file, as `for line in f` delivers them
    file_name,        \* file_path.name
    summary_chars,    \* argument summary_chars
    title_max_chars,  \* argument title_max_chars
    title_source,     \* the title_source option the specification lists ("filename" |
                      \* "fixed"); parse_args defines no such option and no code reads it
    pos,              \* number of lines the scanner has consumed
    inside,           \* local `inside`
    buffer,           \* local `buffer`: the lines accumulated so far
    title_in_tag,     \* local `title_in_tag`
    scan_pc,          \* "next" | "yielded" | "resume" | "eof"
    blocks,           \* history: the (title_in_tag, content) pairs yielded so far
    raw_titles,       \* history: local `raw_title` as it stood when each record was built
    records,          \* history: the records generate_records_for_file yielded so far
    \* ---- write_sharded_jsonl ----
    recs,                  \* what the `records` iterable will produce
    raise_at,              \* the pull at which the iterable raises (0: never)
    open_fail_at,          \* the shard index whose open() raises (0: none)
    max_records_per_file,  \* argument max_records_per_file
    fs,                    \* the output directory: shard index -> file
    shard_index,           \* local `shard_index`
    record_in_shard,       \* local `record_in_shard`
    written_total,         \* local `written_total`
    file_handle,           \* local `file_handle`: 0 is None, else the shard it was opened on
    open_handles,          \* the shard handles that are open (not closed)
    rec,                   \* loop variable `rec` (as Optional)
    w_pc,                  \* "start" | "loop" | "check" | "reopen" | "write" | "done" | "failed"
    returned,              \* the returned total (as Optional)
    exc,                   \* the exception that left the function (as Optional)
    pulled,                \* history: records obtained from the iterable so far
    created,               \* history: the shards open_new_shard has created, in order
    run,                   \* history: 1 in the first call of the writer, 2 in a repeated call
    first_fs,              \* history: the output directory as the first call left it
    \* ---- main ----
    input_mode,       \* "file": --input-file was given; "dirs": --input-dirs
    disk,             \* the candidate paths, in sorted order, with what is at each
    dry_run,          \* args.dry_run
    files,            \* local `files`: positions in disk
    file_idx,         \* the position in `files` of the file being scanned (0: none yet)
    main_pc,          \* "start" | "resolved" | "dry" | "writing" | "done" | "raised"
    main_exc,         \* the exception that left main (as Optional)
    out_dir,          \* whether the output directory exists
    out_dir_before,   \* history: whether it existed when main started
    printed           \* what main has printed so far

scan_cfg == <<file, file_name, summary_chars, title_max_chars, title_source>>
scan_vars == <<scan_cfg, pos, inside, buffer, title_in_tag, scan_pc, blocks, raw_titles,
               records>>
writer_vars == <<recs, raise_at, open_fail_at, max_records_per_file, fs, shard_index,
                 record_in_shard, written_total, file_handle, open_handles, rec, w_pc,
                 returned, exc, pulled, created>>
rerun_vars == <<run, first_fs>>
main_vars == <<input_mode, disk, dry_run, files, file_idx, main_pc, main_exc, out_dir,
               out_dir_before, printed>>
vars == <<scan_vars, writer_vars, rerun_vars, main_vars>>

-----------------------------------------------------------------------------
(* Bounds *)

MaxLines == 4        \* lines per input file (scanner specification)
MaxRecLines == 3     \* lines per input file (record-builder specification)
MaxLimit == 2        \* largest summary_chars / title_max_chars tried
MaxRecords == 5      \* records handed to the writer
MaxShardSize == 2    \* largest max_records_per_file tried
MaxFailShard == 2    \* largest shard index whose open() is made to fail
MaxFiles == 2        \* candidate paths given to main

-----------------------------------------------------------------------------
(* Python primitives *)

Min(a, b) == IF a <= b THEN a ELSE b
Max(a, b) == IF a >= b THEN a ELSE b

None == <<>>
Some(v) == <<v>>

\* `pat in text` for str
Contains(text, pat) ==
    \E i \in 1..(Len(text) - Len(pat) + 1) : SubSeq(text, i, i + Len(pat) - 1) = pat

\* text[:n], with Python's reading of a negative n
PySlicePrefix(text, n) ==
    SubSeq(text, 1, IF n >= 0 THEN Min(n, Len(text)) ELSE Max(Len(text) + n, 0))

Whitespace == {" ", "\t", "\n", "\r"}

RECURSIVE LStrip(_)
LStrip(s) == IF s # <<>> /\ Head(s) \in Whitespace THEN LStrip(Tail(s)) ELSE s

RECURSIVE RStrip(_)
RStrip(s) ==
    IF s # <<>> /\ s[Len(s)] \in Whitespace THEN RStrip(SubSeq(s, 1, Len(s) - 1)) ELSE s

\* str.strip()
Strip(s) == RStrip(LStrip(s))

\* "".join(lines)
RECURSIVE Join(_)
Join(lines) == IF lines = <<>> THEN <<>> ELSE Head(lines) \o Join(Tail(lines))

\* Path.stem: the name without its last suffix; a leading or a trailing dot
\* starts no suffix
LastDot(name) ==
    IF \E i \in 1..Len(name) : name[i] = "."
    THEN CHOOSE i \in 1..Len(name) :
             name[i] = "." /\ \A j \in (i + 1)..Len(name) : name[j] # "."
    ELSE 0

Stem(name) ==
    LET i == LastDot(name)
    IN IF 1 < i /\ i < Len(name) THEN SubSeq(name, 1, i - 1) ELSE name

-----------------------------------------------------------------------------
(* extract_title_from_opening_tag *)

OPEN_MARKER == <<"<", "d", "o", "c">>
CLOSE_MARKER == <<"<", "/", "d", "o", "c", ">">>
TITLE_PREFIX == <<"t", "i", "t", "l", "e", "=", "\"">>

\* The positions where DOC_TITLE_RE = title="(.*?)" matches: the literal
\* prefix, then a closing quote with no line break before it.
TitleMatchAt(line, i) ==
    /\ i + Len(TITLE_PREFIX) - 1 <= Len(line)
    /\ SubSeq(line, i, i + Len(TITLE_PREFIX) - 1) = TITLE_PREFIX
    /\ \E j \in (i + Len(TITLE_PREFIX))..Len(line) :
           /\ line[j] = "\""
           /\ \A k \in (i + Len(TITLE_PREFIX))..(j - 1) : line[k] # "\n"

\* group(1) of the match starting at i: non-greedy, up to the first quote
TitleGroup(line, i) ==
    LET from == i + Len(TITLE_PREFIX)
        j == CHOOSE j \in from..Len(line) :
                 line[j] = "\"" /\ \A k \in from..(j - 1) : line[k] # "\""
    IN SubSeq(line, from, j - 1)

\* the pattern written greedily, title="(.*)": the group runs to the last quote
extract_title_greedy(line) ==
    LET starts == {i \in 1..Len(line) : TitleMatchAt(line, i)}
        i == CHOOSE i \in starts : \A k \in starts : i <= k
        from == i + Len(TITLE_PREFIX)
        j == CHOOSE j \in from..Len(line) :
                 line[j] = "\"" /\ \A k \in (j + 1)..Len(line) : line[k] # "\""
    IN IF starts = {} THEN None ELSE Some(SubSeq(line, from, j - 1))

\* re.search takes the leftmost match
extract_title_from_opening_tag(line) ==
    LET starts == {i \in 1..Len(line) : TitleMatchAt(line, i)}
    IN IF starts = {}
       THEN None
       ELSE Some(TitleGroup(line, CHOOSE i \in starts : \A k \in starts : i <= k))

-----------------------------------------------------------------------------
(* read_first_n_chars and the record generate_records_for_file builds *)

\* the slice without the guard on a non-positive limit
read_first_n_chars_unguarded(text, limit) == PySlicePrefix(text, limit)

read_first_n_chars(text, limit) ==
    IF limit <= 0 THEN <<>> ELSE PySlicePrefix(text, limit)

\* the title of the tag taken as it is, with no fallback to the file name
ResolveTitle_no_fallback(t, name) == Strip(IF t = None THEN <<>> ELSE t[1])

\* raw_title = (title_in_tag or "").strip(); if not raw_title: raw_title = file_path.stem
ResolveTitle(t, name) ==
    LET raw_title == Strip(IF t = None THEN <<>> ELSE t[1])
    IN IF raw_title = <<>> THEN Stem(name) ELSE raw_title

\* the slice taken one character too long
TruncateTitle_off_by_one(raw_title, limit) ==
    IF limit > 0 THEN PySlicePrefix(raw_title, limit + 1) ELSE raw_title

TruncateTitle(raw_title, limit) ==
    IF limit > 0 THEN PySlicePrefix(raw_title, limit) ELSE raw_title

\* {"title": title, "summary": summary}
BuildRecordOf(raw_title, content, s_chars, t_chars) ==
    [title |-> TruncateTitle(raw_title, t_chars),
     summary |-> read_first_n_chars(content, s_chars)]

-----------------------------------------------------------------------------
(* Inputs: the lines input files are made of, file names, record streams *)

OpenTag == <<"<", "d", "o", "c">>
TitleAttr(v) == <<" ", "t", "i", "t", "l", "e", "=", "\"">> \o v \o <<"\"">>
IdAttr == <<" ", "i", "d", "=", "\"", "1", "\"">>
UrlAttr == <<" ", "u", "r", "l", "=", "\"", "u", "\"">>
TagEnd == <<">", "\n">>

\* an opening line: the marker, attributes, the end of the tag
L_Open == OpenTag \o TagEnd
L_OpenTitled(v) == OpenTag \o TitleAttr(v) \o TagEnd
L_OpenIdTitled(v) == OpenTag \o IdAttr \o TitleAttr(v) \o UrlAttr \o TagEnd
L_Close == <<"<", "/", "d", "o", "c", ">", "\n">>
L_Text1 == <<"x", "y", "\n">>
L_Text2 == <<"z", "\n">>
L_Blank == <<"\n">>
\* a whole block on one line
L_OneLine == <<"<", "d", "o", "c", " ", "t", "i", "t", "l", "e", "=", "\"", "A", "\"", ">", "x", "<", "/", "d", "o", "c", ">", "\n">>

T_Abc == <<"A", "b", "c", " ">>
T_Blank == <<" ">>
T_Empty == <<>>
TitleValues == {T_Abc, T_Blank, T_Empty}

TitledOpeningLines ==
    {L_OpenTitled(v) : v \in TitleValues} \cup {L_OpenIdTitled(T_Abc)}
ScanLines ==
    {L_Open, L_Close, L_Text1, L_Text2, L_OneLine} \cup TitledOpeningLines
RecordLines ==
    {L_Open, L_Close, L_Text1, L_Blank} \cup {L_OpenTitled(v) : v \in TitleValues}

SeqsUpTo(S, n) == UNION {[1..k -> S] : k \in 0..n}

E2ELine1 == <<"<", "d", "o", "c", " ", "t", "i", "t", "l", "e", "=", "\"", "C", "a", "t", "\"", ">", "C", "a", "t", "s", " ", "a", "r", "e", " ", "s", "m", "a", "l", "l", ".", "<", "/", "d", "o", "c", ">", "\n">>
E2ELine2 == <<"<", "d", "o", "c", ">", "N", "o", " ", "t", "i", "t", "l", "e", " ", "h", "e", "r", "e", ",", " ", "m", "o", "r", "e", " ", "t", "h", "a", "n", " ", "t", "w", "e", "n", "t", "y", " ", "c", "h", "a", "r", "a", "c", "t", "e", "r", "s", " ", "o", "f", " ", "t", "e", "x", "t", ".", "<", "/", "d", "o", "c", ">", "\n">>
E2EFile == <<E2ELine1, E2ELine2>>
E2EConfig == [summary_chars |-> 10, title_max_chars |-> 5, title_source |-> "fixed"]

DocumentTxt == <<"D", "o", "c", "u", "m", "e", "n", "t", ".", "t", "x", "t">>
DotX == <<".", "x">>
FileNames == {DocumentTxt, DotX}

DefaultSummaryChars == 1024
DefaultTitleMaxChars == 120

-----------------------------------------------------------------------------
(* iter_doc_blocks driven by generate_records_for_file *)

Line == file[pos + 1]

IsOpeningLine(line) == Contains(line, OPEN_MARKER)
IsClosingLine(line) == Contains(line, CLOSE_MARKER)

\* content = "".join(buffer)
BlockContent(buf) == Join(buf)

\* not inside, no "<doc" in the line: continue
OutsideSkip ==
    /\ scan_pc = "next" /\ pos < Len(file)
    /\ ~inside /\ ~IsOpeningLine(Line)
    /\ pos' = pos + 1
    /\ UNCHANGED <<scan_cfg, inside, buffer,
                   title_in_tag, scan_pc, blocks, raw_titles, records>>
    /\ UNCHANGED <<writer_vars, rerun_vars, main_vars>>

\* the opening line falling through into the buffer
OutsideOpen_keeps_line ==
    /\ scan_pc = "next" /\ pos < Len(file)
    /\ ~inside /\ IsOpeningLine(Line)
    /\ inside' = TRUE
    /\ buffer' = <<Line>>
    /\ title_in_tag' = extract_title_from_opening_tag(Line)
    /\ pos' = pos + 1
    /\ UNCHANGED <<scan_cfg, scan_pc, blocks, raw_titles, records>>
    /\ UNCHANGED <<writer_vars, rerun_vars, main_vars>>

\* an opening line that also holds the closing marker emits its block at once
OutsideOpen_closes_same_line ==
    /\ scan_pc = "next" /\ pos < Len(file)
    /\ ~inside /\ IsOpeningLine(Line)
    /\ inside' = TRUE
    /\ buffer' = <<>>
    /\ title_in_tag' = extract_title_from_opening_tag(Line)
    /\ pos' = pos + 1
    /\ IF IsClosingLine(Line)
       THEN /\ blocks' = Append(blocks, [title |-> extract_title_from_opening_tag(Line),
                                        content |-> <<>>])
            /\ scan_pc' = "yielded"
       ELSE UNCHANGED <<blocks, scan_pc>>
    /\ UNCHANGED <<scan_cfg, raw_titles, records>>
    /\ UNCHANGED <<writer_vars, rerun_vars, main_vars>>

\* not inside, "<doc" in the line: enter the block; the rest of the line is not looked at
OutsideOpen ==
    /\ scan_pc = "next" /\ pos < Len(file)
    /\ ~inside /\ IsOpeningLine(Line)
    /\ inside' = TRUE
    /\ buffer' = <<>>
    /\ title_in_tag' = extract_title_from_opening_tag(Line)
    /\ pos' = pos + 1
    /\ UNCHANGED <<scan_cfg, scan_pc, blocks,
                   raw_titles, records>>
    /\ UNCHANGED <<writer_vars, rerun_vars, main_vars>>

\* an opening marker inside a block starts the block again
InsideAppend_restarts_on_open ==
    /\ scan_pc = "next" /\ pos < Len(file)
    /\ inside /\ ~IsClosingLine(Line)
    /\ IF IsOpeningLine(Line)
       THEN /\ buffer' = <<>>
            /\ title_in_tag' = extract_title_from_opening_tag(Line)
       ELSE /\ buffer' = Append(buffer, Line)
            /\ UNCHANGED title_in_tag
    /\ pos' = pos + 1
    /\ UNCHANGED <<scan_cfg, inside, scan_pc, blocks, raw_titles, records>>
    /\ UNCHANGED <<writer_vars, rerun_vars, main_vars>>

\* inside, no "</doc>" in the line: buffer.append(line)
InsideAppend ==
    /\ scan_pc = "next" /\ pos < Len(file)
    /\ inside /\ ~IsClosingLine(Line)
    /\ buffer' = Append(buffer, Line)
    /\ pos' = pos + 1
    /\ UNCHANGED <<scan_cfg, inside,
                   title_in_tag, scan_pc, blocks, raw_titles, records>>
    /\ UNCHANGED <<writer_vars, rerun_vars, main_vars>>

\* the closing line appended to the content before the yield
InsideClose_keeps_closing_line ==
    /\ scan_pc = "next" /\ pos < Len(file)
    /\ inside /\ IsClosingLine(Line)
    /\ blocks' = Append(blocks, [title |-> title_in_tag,
                                 content |-> BlockContent(Append(buffer, Line))])
    /\ scan_pc' = "yielded"
    /\ pos' = pos + 1
    /\ UNCHANGED <<scan_cfg, inside, buffer, title_in_tag, raw_titles, records>>
    /\ UNCHANGED <<writer_vars, rerun_vars, main_vars>>

\* inside, "</doc>" in the line: yield (title_in_tag, content); the generator is
\* suspended at the yield
InsideClose ==
    /\ scan_pc = "next" /\ pos < Len(file)
    /\ inside /\ IsClosingLine(Line)
    /\ blocks' = Append(blocks, [title |-> title_in_tag, content |-> BlockContent(buffer)])
    /\ scan_pc' = "yielded"
    /\ pos' = pos + 1
    /\ UNCHANGED <<scan_cfg, inside, buffer,
                   title_in_tag, raw_titles, records>>
    /\ UNCHANGED <<writer_vars, rerun_vars, main_vars>>

\* the body of generate_records_for_file's loop for the block just yielded
BuildRecord ==
    /\ scan_pc = "yielded"
    /\ LET block == blocks[Len(blocks)]
           raw_title == ResolveTitle(block.title, file_name)
       IN /\ raw_titles' = Append(raw_titles, raw_title)
          /\ records' = Append(records, BuildRecordOf(raw_title, block.content,
                                                      summary_chars, title_max_chars))
    /\ scan_pc' = "resume"
    /\ UNCHANGED <<scan_cfg, pos, inside, buffer, title_in_tag, blocks>>
    /\ UNCHANGED <<writer_vars, rerun_vars, main_vars>>

\* the consumer asks for the next block: the statements after the yield
ResumeAfterYield ==
    /\ scan_pc = "resume"
    /\ buffer' = <<>>
    /\ inside' = FALSE
    /\ title_in_tag' = None
    /\ scan_pc' = "next"
    /\ UNCHANGED <<scan_cfg, pos, blocks, raw_titles, records>>
    /\ UNCHANGED <<writer_vars, rerun_vars, main_vars>>

\* the block still open at the end of the file is flushed
EndOfFile_flushes ==
    /\ scan_pc = "next" /\ pos = Len(file)
    /\ scan_pc' = "eof"
    /\ blocks' = IF inside
                 THEN Append(blocks, [title |-> title_in_tag, content |-> BlockContent(buffer)])
                 ELSE blocks
    /\ UNCHANGED <<scan_cfg, pos, inside, buffer, title_in_tag, raw_titles, records>>
    /\ UNCHANGED <<writer_vars, rerun_vars, main_vars>>

\* the file is exhausted: both generators return
EndOfFile ==
    /\ scan_pc = "next" /\ pos = Len(file)
    /\ scan_pc' = "eof"
    /\ UNCHANGED <<scan_cfg, pos, inside, buffer,
                   title_in_tag, blocks, raw_titles, records>>
    /\ UNCHANGED <<writer_vars, rerun_vars, main_vars>>

ScanNext ==
    \/ OutsideSkip
    \/ OutsideOpen
    \/ InsideAppend
    \/ InsideClose
    \/ BuildRecord
    \/ ResumeAfterYield
    \/ EndOfFile

\* the locals of iter_doc_blocks before its first line
ScanStart ==
    /\ pos = 0
    /\ inside = FALSE
    /\ buffer = <<>>
    /\ title_in_tag = None
    /\ scan_pc = "next"
    /\ blocks = <<>>
    /\ raw_titles = <<>>
    /\ records = <<>>

\* write_sharded_jsonl not called
WriterIdle ==
    /\ recs = <<>>
    /\ raise_at = 0
    /\ open_fail_at = 0
    /\ max_records_per_file = 0
    /\ fs = <<>>
    /\ shard_index = 0
    /\ record_in_shard = 0
    /\ written_total = 0
    /\ file_handle = 0
    /\ open_handles = {}
    /\ rec = None
    /\ w_pc = "idle"
    /\ returned = None
    /\ exc = None
    /\ pulled = 0
    /\ created = <<>>

\* the writer in its first call
FirstRun ==
    /\ run = 1
    /\ first_fs = <<>>

\* main not running
MainIdle ==
    /\ input_mode = "file"
    /\ disk = <<>>
    /\ dry_run = FALSE
    /\ files = <<>>
    /\ file_idx = 0
    /\ main_pc = "idle"
    /\ main_exc = None
    /\ out_dir = TRUE
    /\ out_dir_before = TRUE
    /\ printed = <<>>

\* the scanner on any file of the bounded line set, under the command line's defaults
InitScan ==
    /\ file \in SeqsUpTo(ScanLines, MaxLines)
    /\ file_name = DocumentTxt
    /\ summary_chars = DefaultSummaryChars
    /\ title_max_chars = DefaultTitleMaxChars
    /\ title_source = "filename"
    /\ ScanStart
    /\ WriterIdle
    /\ FirstRun
    /\ MainIdle

\* the record builder under every small configuration, and the end-to-end example
InitRecords ==
    /\ \/ /\ file \in SeqsUpTo(RecordLines, MaxRecLines)
          /\ file_name \in FileNames
          /\ summary_chars \in -1..MaxLimit
          /\ title_max_chars \in -1..MaxLimit
          /\ title_source \in {"filename", "fixed"}
       \/ /\ file = E2EFile
          /\ file_name = DocumentTxt
          /\ summary_chars = E2EConfig.summary_chars
          /\ title_max_chars = E2EConfig.title_max_chars
          /\ title_source = E2EConfig.title_source
    /\ ScanStart
    /\ WriterIdle
    /\ FirstRun
    /\ MainIdle

SpecScan == InitScan /\ [][ScanNext]_vars
SpecRecords == InitRecords /\ [][ScanNext]_vars

-----------------------------------------------------------------------------
(* json.dumps(rec, ensure_ascii=False) for a {"title", "summary"} dict of str *)

JsonEscapeChar(c) ==
    CASE c = "\"" -> <<"\\", "\"">>
      [] c = "\\" -> <<"\\", "\\">>
      [] c = "\n" -> <<"\\", "n">>
      [] c = "\r" -> <<"\\", "r">>
      [] c = "\t" -> <<"\\", "t">>
      [] OTHER -> <<c>>

RECURSIVE JsonEscape(_)
JsonEscape(str) ==
    IF str = <<>> THEN <<>> ELSE JsonEscapeChar(Head(str)) \o JsonEscape(Tail(str))

JsonString(str) == <<"\"">> \o JsonEscape(str) \o <<"\"">>

\* the text written with no escaping at all
JsonDumps_unescaped(r) ==
    <<"{", "\"", "t", "i", "t", "l", "e", "\"", ":", " ", "\"">> \o r.title \o <<"\"", ",", " ", "\"", "s", "u", "m", "m", "a", "r", "y", "\"", ":", " ", "\"">> \o r.summary \o <<"\"", "}">>

JsonDumps(r) ==
    <<"{", "\"", "t", "i", "t", "l", "e", "\"", ":", " ">> \o JsonString(r.title) \o <<",", " ", "\"", "s", "u", "m", "m", "a", "r", "y", "\"", ":", " ">> \o JsonString(r.summary) \o <<"}">>

-----------------------------------------------------------------------------
(* write_sharded_jsonl *)

NoFile == [exists |-> FALSE, data |-> <<>>]

\* open(..., "a"): what the file holds is kept
OpenForWriting_append(f) == [exists |-> TRUE, data |-> f.data]

\* open(..., "w"): the file is created, or truncated if it exists
OpenForWriting(f) == [exists |-> TRUE, data |-> <<>>]

\* file_handle.write(text)
WriteTo(f, text) == [exists |-> TRUE, data |-> f.data \o text]

\* the rotation test taken one record late
ShardFull_off_by_one(count, limit) == limit > 0 /\ count > limit

\* the rotation test without its max_records_per_file > 0 half
ShardFull_no_positive_guard(count, limit) == count >= limit

\* max_records_per_file > 0 and record_in_shard >= max_records_per_file
ShardFull(count, limit) == limit > 0 /\ count >= limit

\* no finally block: the handle is left as it is
FinallyClose_missing(handle, handles) == handles

\* finally: if file_handle is not None and not file_handle.closed: file_handle.close()
FinallyClose(handle, handles) ==
    IF handle # 0 /\ handle \in handles THEN handles \ {handle} ELSE handles

\* shard 1 opened only when the first record asks for it
OpenFirstShard_lazy ==
    /\ w_pc = "start"
    /\ w_pc' = "loop"
    /\ UNCHANGED <<recs, raise_at, open_fail_at, max_records_per_file, fs, shard_index,
                   record_in_shard, written_total, file_handle, open_handles, rec,
                   returned, exc, pulled, created>>
    /\ UNCHANGED <<scan_vars, rerun_vars, main_vars>>

\* try: file_handle = open_new_shard(shard_index)
OpenFirstShard ==
    /\ w_pc = "start"
    /\ open_fail_at # shard_index
    /\ fs' = [fs EXCEPT ![shard_index] = OpenForWriting(@)]
    /\ file_handle' = shard_index
    /\ open_handles' = open_handles \cup {shard_index}
    /\ created' = Append(created, shard_index)
    /\ w_pc' = "loop"
    /\ UNCHANGED <<recs, raise_at, open_fail_at, max_records_per_file, shard_index,
                   record_in_shard, written_total, rec, returned, exc, pulled>>
    /\ UNCHANGED <<scan_vars, rerun_vars, main_vars>>

\* the first open() raises: the finally block finds file_handle None
OpenFirstShardFails ==
    /\ w_pc = "start"
    /\ open_fail_at = shard_index
    /\ open_handles' = FinallyClose(file_handle, open_handles)
    /\ exc' = Some("OSError")
    /\ w_pc' = "failed"
    /\ UNCHANGED <<recs, raise_at, open_fail_at, max_records_per_file, fs, shard_index,
                   record_in_shard, written_total, file_handle, rec, returned, pulled,
                   created>>
    /\ UNCHANGED <<scan_vars, rerun_vars, main_vars>>

\* for rec in records: the iterable hands out its next record
PullNext ==
    /\ w_pc = "loop"
    /\ raise_at # pulled + 1
    /\ pulled < Len(recs)
    /\ rec' = Some(recs[pulled + 1])
    /\ pulled' = pulled + 1
    /\ w_pc' = "check"
    /\ UNCHANGED <<recs, raise_at, open_fail_at, max_records_per_file, fs, shard_index,
                   record_in_shard, written_total, file_handle, open_handles, returned,
                   exc, created>>
    /\ UNCHANGED <<scan_vars, rerun_vars, main_vars>>

\* for rec in records: the iterable raises; finally, then the exception propagates
PullRaises ==
    /\ w_pc = "loop"
    /\ raise_at = pulled + 1
    /\ open_handles' = FinallyClose(file_handle, open_handles)
    /\ exc' = Some("RecordsError")
    /\ w_pc' = "failed"
    /\ UNCHANGED <<recs, raise_at, open_fail_at, max_records_per_file, fs, shard_index,
                   record_in_shard, written_total, file_handle, rec, returned, pulled,
                   created>>
    /\ UNCHANGED <<scan_vars, rerun_vars, main_vars>>

\* for rec in records: the iterable is exhausted; finally, then return written_total
PullStop ==
    /\ w_pc = "loop"
    /\ raise_at # pulled + 1
    /\ pulled = Len(recs)
    /\ open_handles' = FinallyClose(file_handle, open_handles)
    /\ returned' = Some(written_total)
    /\ w_pc' = "done"
    /\ UNCHANGED <<recs, raise_at, open_fail_at, max_records_per_file, fs, shard_index,
                   record_in_shard, written_total, file_handle, rec, exc, pulled,
                   created>>
    /\ UNCHANGED <<scan_vars, rerun_vars, main_vars>>

\* the shard is full and the counter is not reset
RotateClose_no_reset ==
    /\ w_pc = "check"
    /\ ShardFull(record_in_shard, max_records_per_file)
    /\ open_handles' = open_handles \ {file_handle}
    /\ shard_index' = shard_index + 1
    /\ w_pc' = "reopen"
    /\ UNCHANGED <<recs, raise_at, open_fail_at, max_records_per_file, fs,
                   record_in_shard, written_total, file_handle, rec, returned, exc,
                   pulled, created>>
    /\ UNCHANGED <<scan_vars, rerun_vars, main_vars>>

\* the shard is full: file_handle.close(); shard_index += 1; record_in_shard = 0
RotateClose ==
    /\ w_pc = "check"
    /\ ShardFull(record_in_shard, max_records_per_file)
    /\ open_handles' = open_handles \ {file_handle}
    /\ shard_index' = shard_index + 1
    /\ record_in_shard' = 0
    /\ w_pc' = "reopen"
    /\ UNCHANGED <<recs, raise_at, open_fail_at, max_records_per_file, fs,
                   written_total, file_handle, rec, returned, exc, pulled, created>>
    /\ UNCHANGED <<scan_vars, rerun_vars, main_vars>>

\* file_handle = open_new_shard(shard_index)
RotateOpen ==
    /\ w_pc = "reopen"
    /\ open_fail_at # shard_index
    /\ fs' = [fs EXCEPT ![shard_index] = OpenForWriting(@)]
    /\ file_handle' = shard_index
    /\ open_handles' = open_handles \cup {shard_index}
    /\ created' = Append(created, shard_index)
    /\ w_pc' = "write"
    /\ UNCHANGED <<recs, raise_at, open_fail_at, max_records_per_file, shard_index,
                   record_in_shard, written_total, rec, returned, exc, pulled>>
    /\ UNCHANGED <<scan_vars, rerun_vars, main_vars>>

\* open() of the next shard raises: file_handle still names the handle just
\* closed, so the finally block closes nothing
RotateOpenFails ==
    /\ w_pc = "reopen"
    /\ open_fail_at = shard_index
    /\ open_handles' = FinallyClose(file_handle, open_handles)
    /\ exc' = Some("OSError")
    /\ w_pc' = "failed"
    /\ UNCHANGED <<recs, raise_at, open_fail_at, max_records_per_file, fs, shard_index,
                   record_in_shard, written_total, file_handle, rec, returned, pulled,
                   created>>
    /\ UNCHANGED <<scan_vars, rerun_vars, main_vars>>

\* rotation done right after the write that fills the shard
WriteRecord_eager_rotation ==
    /\ \/ w_pc = "write"
       \/ w_pc = "check" /\ ~ShardFull(record_in_shard, max_records_per_file)
    /\ written_total' = written_total + 1
    /\ w_pc' = "loop"
    /\ IF ShardFull(record_in_shard + 1, max_records_per_file)
       THEN /\ fs' = [fs EXCEPT ![file_handle] = WriteTo(@, JsonDumps(rec[1]) \o <<"\n">>),
                                ![shard_index + 1] = OpenForWriting(@)]
            /\ shard_index' = shard_index + 1
            /\ record_in_shard' = 0
            /\ file_handle' = shard_index + 1
            /\ open_handles' = {shard_index + 1}
            /\ created' = Append(created, shard_index + 1)
       ELSE /\ fs' = [fs EXCEPT ![file_handle] = WriteTo(@, JsonDumps(rec[1]) \o <<"\n">>)]
            /\ record_in_shard' = record_in_shard + 1
            /\ UNCHANGED <<shard_index, file_handle, open_handles, created>>
    /\ UNCHANGED <<recs, raise_at, open_fail_at, max_records_per_file, rec, returned, exc,
                   pulled>>
    /\ UNCHANGED <<scan_vars, rerun_vars, main_vars>>

\* json_line = json.dumps(rec, ...); file_handle.write(json_line + "\n"); counters += 1
WriteRecord ==
    /\ \/ w_pc = "write"
       \/ w_pc = "check" /\ ~ShardFull(record_in_shard, max_records_per_file)
    /\ fs' = [fs EXCEPT ![file_handle] = WriteTo(@, JsonDumps(rec[1]) \o <<"\n">>)]
    /\ record_in_shard' = record_in_shard + 1
    /\ written_total' = written_total + 1
    /\ w_pc' = "loop"
    /\ UNCHANGED <<recs, raise_at, open_fail_at, max_records_per_file, shard_index,
                   file_handle, open_handles, rec, returned, exc, pulled, created>>
    /\ UNCHANGED <<scan_vars, rerun_vars, main_vars>>

WriterNext ==
    \/ OpenFirstShard
    \/ OpenFirstShardFails
    \/ PullNext
    \/ PullRaises
    \/ PullStop
    \/ RotateClose
    \/ RotateOpen
    \/ RotateOpenFails
    \/ WriteRecord

\* the records handed to the writer: one plain, one whose text needs escaping
R_Plain == [title |-> <<"A">>, summary |-> <<"x">>]
R_Escaped == [title |-> <<"\"">>, summary |-> <<"\n", "\\">>]
WriterRecords == {R_Plain, R_Escaped}

\* what an earlier run left in a shard file
StaleData == JsonDumps(R_Plain) \o <<"\n">> \o JsonDumps(R_Plain) \o <<"\n">> \o JsonDumps(R_Plain) \o <<"\n">>

ShardSlots == 1..(MaxRecords + 1)

\* the output directory before the call: empty, or holding two shards of an earlier run
OutputDirs ==
    {[i \in ShardSlots |-> NoFile],
     [i \in ShardSlots |-> IF i <= 2 THEN [exists |-> TRUE, data |-> StaleData] ELSE NoFile]}

\* generate_records_for_file not running
ScanIdle ==
    /\ file = <<>>
    /\ file_name = DocumentTxt
    /\ summary_chars = DefaultSummaryChars
    /\ title_max_chars = DefaultTitleMaxChars
    /\ title_source = "filename"
    /\ pos = 0
    /\ inside = FALSE
    /\ buffer = <<>>
    /\ title_in_tag = None
    /\ scan_pc = "idle"
    /\ blocks = <<>>
    /\ raw_titles = <<>>
    /\ records = <<>>

\* write_sharded_jsonl after its locals are set, before the try
InitWriter ==
    /\ recs \in SeqsUpTo(WriterRecords, MaxRecords)
    /\ raise_at \in 0..(Len(recs) + 1)
    /\ open_fail_at \in 0..MaxFailShard
    /\ max_records_per_file \in -1..MaxShardSize
    /\ fs \in OutputDirs
    /\ shard_index = 1
    /\ record_in_shard = 0
    /\ file_handle = 0
    /\ written_total = 0
    /\ open_handles = {}
    /\ rec = None
    /\ w_pc = "start"
    /\ returned = None
    /\ exc = None
    /\ pulled = 0
    /\ created = <<>>
    /\ ScanIdle
    /\ FirstRun
    /\ MainIdle

SpecWriter == InitWriter /\ [][WriterNext]_vars

\* write_sharded_jsonl called a second time with the same records and
\* configuration, on the directory as the first call left it
RunAgain ==
    /\ w_pc \in {"done", "failed"}
    /\ run = 1
    /\ run' = 2
    /\ first_fs' = fs
    /\ shard_index' = 1
    /\ record_in_shard' = 0
    /\ file_handle' = 0
    /\ written_total' = 0
    /\ open_handles' = {}
    /\ rec' = None
    /\ w_pc' = "start"
    /\ returned' = None
    /\ exc' = None
    /\ pulled' = 0
    /\ created' = <<>>
    /\ UNCHANGED <<recs, raise_at, open_fail_at, max_records_per_file, fs>>
    /\ UNCHANGED <<scan_vars, main_vars>>

RerunNext == WriterNext \/ RunAgain

SpecRerun == InitWriter /\ [][RerunNext]_vars

-----------------------------------------------------------------------------
(* main: input files resolved, then the dry run or the writer fed by        *)
(* generate_records_for_file over the files in order                        *)

\* whole input files
F_Closed == <<L_OpenTitled(T_Abc), L_Text1, L_Close>>
F_Unclosed == <<L_Open, L_Text1>>
F_Stray == <<L_Text2, L_Close, L_Open, L_Close>>
F_Two == <<L_Open, L_Close, L_Open, L_Text1, L_Close>>
MainFiles == {F_Closed, F_Unclosed, F_Stray, F_Two}

\* what can be at a candidate path: a file the glob pattern matches, a file it
\* does not match, or no file (missing, or a directory)
DiskEntries ==
    {[lines |-> f, is_file |-> TRUE, matches |-> TRUE] : f \in MainFiles}
      \cup {[lines |-> F_Closed, is_file |-> TRUE, matches |-> FALSE],
            [lines |-> <<>>, is_file |-> FALSE, matches |-> TRUE]}

ZTxt == <<"z", ".", "t", "x", "t">>

\* the name of the i-th candidate path, in sorted order
NameAt(i) == IF i = 1 THEN DotX ELSE IF i = 2 THEN DocumentTxt ELSE ZTxt

\* collect_files: the files under the directories that match the pattern, sorted
collect_files(d) ==
    SelectSeq([i \in 1..Len(d) |-> i], LAMBDA i : d[i].is_file /\ d[i].matches)

\* [p for p in files if p.exists() and p.is_file()]
ExistingFiles(d, paths) ==
    SelectSeq(paths, LAMBDA i : d[i].is_file)

\* files = [Path(args.input_file)], then the filter
MainResolveFile ==
    /\ main_pc = "start"
    /\ input_mode = "file"
    /\ files' = ExistingFiles(disk, <<1>>)
    /\ main_pc' = "resolved"
    /\ UNCHANGED <<input_mode, disk, dry_run, file_idx, main_exc, out_dir, out_dir_before,
                   printed>>
    /\ UNCHANGED <<scan_vars, writer_vars, rerun_vars>>

\* files = collect_files(...), then the filter
MainResolveDirs ==
    /\ main_pc = "start"
    /\ input_mode = "dirs"
    /\ files' = ExistingFiles(disk, collect_files(disk))
    /\ main_pc' = "resolved"
    /\ UNCHANGED <<input_mode, disk, dry_run, file_idx, main_exc, out_dir, out_dir_before,
                   printed>>
    /\ UNCHANGED <<scan_vars, writer_vars, rerun_vars>>

\* the output directory made before the files are looked at
MainRaiseNoInput_after_mkdir ==
    /\ main_pc = "resolved"
    /\ files = <<>>
    /\ out_dir' = TRUE
    /\ main_exc' = Some("FileNotFoundError")
    /\ main_pc' = "raised"
    /\ UNCHANGED <<input_mode, disk, dry_run, files, file_idx, out_dir_before, printed>>
    /\ UNCHANGED <<scan_vars, writer_vars, rerun_vars>>

\* if not files: raise FileNotFoundError
MainRaiseNoInput ==
    /\ main_pc = "resolved"
    /\ files = <<>>
    /\ main_exc' = Some("FileNotFoundError")
    /\ main_pc' = "raised"
    /\ UNCHANGED <<input_mode, disk, dry_run, files, file_idx, out_dir, out_dir_before,
                   printed>>
    /\ UNCHANGED <<scan_vars, writer_vars, rerun_vars>>

\* the scanner of the next file going on with the locals of the last one
StartScanOf_carrying_state(k) ==
    /\ file_idx' = k
    /\ file' = disk[files[k]].lines
    /\ file_name' = NameAt(files[k])
    /\ pos' = 0
    /\ scan_pc' = "next"
    /\ UNCHANGED <<inside, buffer, title_in_tag>>

\* a call of generate_records_for_file(files[k], ...): iter_doc_blocks starts
\* with fresh locals
StartScanOf(k) ==
    /\ file_idx' = k
    /\ file' = disk[files[k]].lines
    /\ file_name' = NameAt(files[k])
    /\ pos' = 0
    /\ inside' = FALSE
    /\ buffer' = <<>>
    /\ title_in_tag' = None
    /\ scan_pc' = "next"

\* if args.dry_run: the generator over the first file is made
MainStartDryRun ==
    /\ main_pc = "resolved"
    /\ files # <<>>
    /\ dry_run
    /\ StartScanOf(1)
    /\ main_pc' = "dry"
    /\ UNCHANGED <<summary_chars, title_max_chars, title_source, blocks, raw_titles,
                   records>>
    /\ UNCHANGED <<input_mode, disk, dry_run, files, main_exc, out_dir, out_dir_before,
                   printed>>
    /\ UNCHANGED <<writer_vars, rerun_vars>>

\* print(json.dumps(rec)); if i >= 1: break; return
MainPrintRecord ==
    /\ main_pc = "dry"
    /\ Len(printed) < Len(records)
    /\ printed' = Append(printed, JsonDumps(records[Len(printed) + 1]))
    /\ main_pc' = IF Len(printed) >= 1 THEN "done" ELSE "dry"
    /\ UNCHANGED <<input_mode, disk, dry_run, files, file_idx, main_exc, out_dir,
                   out_dir_before>>
    /\ UNCHANGED <<scan_vars, writer_vars, rerun_vars>>

\* the first file had fewer than two blocks: the loop ends; return
MainDryRunEnds ==
    /\ main_pc = "dry"
    /\ Len(printed) = Len(records)
    /\ scan_pc = "eof"
    /\ main_pc' = "done"
    /\ UNCHANGED <<input_mode, disk, dry_run, files, file_idx, main_exc, out_dir,
                   out_dir_before, printed>>
    /\ UNCHANGED <<scan_vars, writer_vars, rerun_vars>>

\* total = write_sharded_jsonl(...): output_dir.mkdir, the locals of the writer
MainCallWriter ==
    /\ main_pc = "resolved"
    /\ files # <<>>
    /\ ~dry_run
    /\ out_dir' = TRUE
    /\ shard_index' = 1
    /\ record_in_shard' = 0
    /\ file_handle' = 0
    /\ written_total' = 0
    /\ w_pc' = "start"
    /\ main_pc' = "writing"
    /\ UNCHANGED <<recs, raise_at, open_fail_at, max_records_per_file, fs, open_handles,
                   rec, returned, exc, pulled, created>>
    /\ UNCHANGED <<input_mode, disk, dry_run, files, file_idx, main_exc, out_dir_before,
                   printed>>
    /\ UNCHANGED <<scan_vars, rerun_vars>>

\* the consumer is waiting for a record the generators have not produced yet
ScanDemand ==
    \/ main_pc = "dry" /\ Len(printed) = Len(records)
    \/ main_pc = "writing" /\ w_pc = "loop" /\ pulled = Len(records)

\* one step of iter_doc_blocks / generate_records_for_file on the current file
MainScan == ScanDemand /\ scan_pc \in {"next", "yielded", "resume"} /\ ScanNext

\* for f in files: the generator expression moves on to the next file
PipeNextFile ==
    /\ main_pc = "writing" /\ w_pc = "loop" /\ pulled = Len(records)
    /\ scan_pc \in {"idle", "eof"}
    /\ file_idx < Len(files)
    /\ StartScanOf(file_idx + 1)
    /\ UNCHANGED <<summary_chars, title_max_chars, title_source, blocks, raw_titles,
                   records>>
    /\ UNCHANGED <<writer_vars, rerun_vars>>
    /\ UNCHANGED <<input_mode, disk, dry_run, files, main_pc, main_exc, out_dir,
                   out_dir_before, printed>>

\* for rec in records: the generator expression hands over the record just built
PipePull ==
    /\ main_pc = "writing" /\ w_pc = "loop"
    /\ pulled < Len(records)
    /\ rec' = Some(records[pulled + 1])
    /\ recs' = Append(recs, records[pulled + 1])
    /\ pulled' = pulled + 1
    /\ w_pc' = "check"
    /\ UNCHANGED <<raise_at, open_fail_at, max_records_per_file, fs, shard_index,
                   record_in_shard, written_total, file_handle, open_handles, returned,
                   exc, created>>
    /\ UNCHANGED <<scan_vars, rerun_vars, main_vars>>

\* for rec in records: the last file is exhausted; finally, return written_total
PipeStop ==
    /\ main_pc = "writing" /\ w_pc = "loop" /\ pulled = Len(records)
    /\ scan_pc \in {"idle", "eof"}
    /\ file_idx = Len(files)
    /\ open_handles' = FinallyClose(file_handle, open_handles)
    /\ returned' = Some(written_total)
    /\ w_pc' = "done"
    /\ UNCHANGED <<recs, raise_at, open_fail_at, max_records_per_file, fs, shard_index,
                   record_in_shard, written_total, file_handle, rec, exc, pulled,
                   created>>
    /\ UNCHANGED <<scan_vars, rerun_vars, main_vars>>

\* print(f"... {total} ...")
MainPrintTotal ==
    /\ main_pc = "writing"
    /\ w_pc = "done"
    /\ printed' = Append(printed, returned)
    /\ main_pc' = "done"
    /\ UNCHANGED <<input_mode, disk, dry_run, files, file_idx, main_exc, out_dir,
                   out_dir_before>>
    /\ UNCHANGED <<scan_vars, writer_vars, rerun_vars>>

MainNext ==
    \/ MainResolveFile
    \/ MainResolveDirs
    \/ MainRaiseNoInput
    \/ MainStartDryRun
    \/ MainPrintRecord
    \/ MainDryRunEnds
    \/ MainCallWriter
    \/ MainScan
    \/ PipeNextFile
    \/ PipePull
    \/ PipeStop
    \/ OpenFirstShard
    \/ RotateClose
    \/ RotateOpen
    \/ WriteRecord
    \/ MainPrintTotal

\* main after parse_args
InitMain ==
    /\ disk \in SeqsUpTo(DiskEntries, MaxFiles)
    /\ input_mode \in {"file", "dirs"}
    /\ input_mode = "file" => Len(disk) = 1
    /\ dry_run \in BOOLEAN
    /\ files = <<>>
    /\ file_idx = 0
    /\ main_pc = "start"
    /\ main_exc = None
    /\ out_dir_before \in BOOLEAN
    /\ out_dir = out_dir_before
    /\ printed = <<>>
    /\ fs \in (IF out_dir_before THEN OutputDirs ELSE {[i \in ShardSlots |-> NoFile]})
    /\ max_records_per_file \in {0, 1}
    /\ recs = <<>>
    /\ raise_at = 0
    /\ open_fail_at = 0
    /\ shard_index = 0
    /\ record_in_shard = 0
    /\ written_total = 0
    /\ file_handle = 0
    /\ open_handles = {}
    /\ rec = None
    /\ w_pc = "idle"
    /\ returned = None
    /\ exc = None
    /\ pulled = 0
    /\ created = <<>>
    /\ ScanIdle
    /\ FirstRun

SpecMain == InitMain /\ [][MainNext]_vars

Init == InitScan \/ InitRecords \/ InitWriter \/ InitMain
Next == ScanNext \/ WriterNext \/ RunAgain \/ MainNext
Spec == Init /\ [][Next]_vars

-----------------------------------------------------------------------------
(* Claims about the scanner and the record builder *)

Rec(title, summary) == [title |-> title, summary |-> summary]

\* the literal the specification's example falls back to ("Docum" is its first 5 characters)
FIXED_TITLE == <<"D", "o", "c", "u", "m", "e", "n", "t">>

\* the base name, without extension, of each file name of the model
BaseName(name) == IF name = DocumentTxt THEN <<"D", "o", "c", "u", "m", "e", "n", "t">> ELSE DotX

\* the fallback the specification says is configured
ConfiguredFallback == IF title_source = "fixed" THEN FIXED_TITLE ELSE BaseName(file_name)

\* block i had no usable title: no attribute, or one that is empty once trimmed
LacksTitle(i) ==
    \/ blocks[i].title = None
    \/ \A k \in 1..Len(blocks[i].title[1]) : blocks[i].title[1][k] \in Whitespace

E2ERun ==
    /\ file = E2EFile
    /\ summary_chars = 10
    /\ title_max_chars = 5
    /\ title_source = "fixed"

\* C1 as claimed: the end-to-end example yields the two records {Cat, "Cats are s"}
\* and {Docum, "No title h"}, in this order.
C1_EndToEndAsClaimed ==
    (E2ERun /\ scan_pc = "eof") =>
        records = <<Rec(<<"C", "a", "t">>, <<"C", "a", "t", "s", " ", "a", "r", "e", " ", "s">>), Rec(<<"D", "o", "c", "u", "m">>, <<"N", "o", " ", "t", "i", "t", "l", "e", " ", "h">>)>>

\* C1 amended: on the example's input the first line only opens a block (its own
\* closing marker is not looked at) and the second line closes it, so the run
\* yields exactly one block, titled Cat with empty content, and exactly one
\* record {title: Cat, summary: ""}.
C1_EndToEnd ==
    (E2ERun /\ scan_pc = "eof") =>
        /\ blocks = <<[title |-> Some(<<"C", "a", "t">>), content |-> <<>>]>>
        /\ records = <<Rec(<<"C", "a", "t">>, <<>>)>>

C1_Witness == E2ERun /\ scan_pc = "eof" /\ Len(records) = 1

\* the lines that carry no marker
TextLines == {L_Text1, L_Text2}

\* f holds exactly one block, opened by a line whose tag has the attribute
\* title="v" and closed by a later closing line; every other line is plain text
OneTitledBlock(f, v) ==
    \E i \in 1..Len(f) : \E j \in (i + 1)..Len(f) :
        /\ f[i] \in {L_OpenTitled(v), L_OpenIdTitled(v)}
        /\ f[j] = L_Close
        /\ \A k \in 1..Len(f) : k \notin {i, j} => f[k] \in TextLines

\* C7: for a well-formed file holding exactly one block whose opening tag carries
\* title="v", the scanner yields exactly one block and its title is v.
C7_OneTitledBlock ==
    \A v \in TitleValues :
        OneTitledBlock(file, v) =>
            /\ Len(blocks) <= 1
            /\ scan_pc = "eof" => (Len(blocks) = 1 /\ blocks[1].title = Some(v))

C7_Witness ==
    /\ scan_pc = "eof"
    /\ OneTitledBlock(file, T_Abc)
    /\ \E i \in 1..Len(file) : file[i] = L_OpenIdTitled(T_Abc)
    /\ Len(blocks) = 1

C9_Summary ==
    \A i \in 1..Len(records) :
        LET content == blocks[i].content
        IN IF summary_chars > 0
           THEN /\ Len(records[i].summary) = Min(summary_chars, Len(content))
                /\ \A k \in 1..Len(records[i].summary) : records[i].summary[k] = content[k]
           ELSE records[i].summary = <<>>

C9_Witness ==
    /\ Len(records) = 1
    /\ summary_chars > 0
    /\ summary_chars < Len(blocks[1].content)
    /\ Len(records[1].summary) = summary_chars
    /\ records[1].summary # blocks[1].content

\* C10 as claimed: summary length <= summary_chars for every record.
C10_RecordBoundsAsClaimed ==
    \A i \in 1..Len(records) :
        /\ Len(records[i].summary) <= summary_chars
        /\ title_max_chars > 0 => Len(records[i].title) <= title_max_chars
        /\ title_max_chars <= 0 => records[i].title = raw_titles[i]

\* C10 amended: summary length <= max(summary_chars, 0) (a negative summary_chars
\* gives the empty summary); title length <= title_max_chars when that is
\* positive, and the resolved title unmodified otherwise.
C10_RecordBounds ==
    \A i \in 1..Len(records) :
        /\ Len(records[i].summary) <= Max(summary_chars, 0)
        /\ title_max_chars > 0 => Len(records[i].title) <= title_max_chars
        /\ title_max_chars <= 0 => records[i].title = raw_titles[i]

C10_Witness ==
    /\ Len(records) = 1
    /\ title_max_chars > 0
    /\ Len(raw_titles[1]) > title_max_chars
    /\ Len(records[1].title) = title_max_chars
    /\ summary_chars < 0

-----------------------------------------------------------------------------
(* Reading shard files back: lines, and the JSON object on each line *)

FirstNewline(data) ==
    CHOOSE i \in 1..Len(data) : data[i] = "\n" /\ \A k \in 1..(i - 1) : data[k] # "\n"

\* the lines of a file, without their terminators
RECURSIVE SplitLines(_)
SplitLines(data) ==
    IF data = <<>> THEN <<>>
    ELSE IF \A i \in 1..Len(data) : data[i] # "\n" THEN <<data>>
    ELSE LET i == FirstNewline(data)
         IN <<SubSeq(data, 1, i - 1)>> \o SplitLines(SubSeq(data, i + 1, Len(data)))

NotJson == [title |-> <<"not JSON">>, summary |-> <<"not JSON">>]

JsonUnescapeChar(c) ==
    CASE c = "n" -> "\n"
      [] c = "r" -> "\r"
      [] c = "t" -> "\t"
      [] OTHER -> c

\* the JSON string whose first character after the opening quote is text[i]
RECURSIVE ReadJsonString(_, _, _)
ReadJsonString(text, i, acc) ==
    IF i > Len(text) THEN [ok |-> FALSE, val |-> acc, next |-> i]
    ELSE IF text[i] = "\"" THEN [ok |-> TRUE, val |-> acc, next |-> i + 1]
    ELSE IF text[i] = "\\"
         THEN IF i + 1 > Len(text) THEN [ok |-> FALSE, val |-> acc, next |-> i]
              ELSE ReadJsonString(text, i + 2, Append(acc, JsonUnescapeChar(text[i + 1])))
    ELSE ReadJsonString(text, i + 1, Append(acc, text[i]))

HasAt(text, i, lit) ==
    i + Len(lit) - 1 <= Len(text) /\ SubSeq(text, i, i + Len(lit) - 1) = lit

\* json.loads of one line holding {"title": "...", "summary": "..."}
JsonLoads(text) ==
    LET k1 == <<"{", "\"", "t", "i", "t", "l", "e", "\"", ":", " ", "\"">>
        k2 == <<",", " ", "\"", "s", "u", "m", "m", "a", "r", "y", "\"", ":", " ", "\"">>
        k3 == <<"}">>
    IN IF ~HasAt(text, 1, k1) THEN NotJson
       ELSE LET a == ReadJsonString(text, Len(k1) + 1, <<>>)
            IN IF ~a.ok \/ ~HasAt(text, a.next, k2) THEN NotJson
               ELSE LET b == ReadJsonString(text, a.next + Len(k2), <<>>)
                    IN IF b.ok /\ HasAt(text, b.next, k3) /\ b.next = Len(text)
                       THEN [title |-> a.val, summary |-> b.val]
                       ELSE NotJson

ShardLines(i) == SplitLines(fs[i].data)
ShardCount(i) == Len(ShardLines(i))
ShardRecords(i) == [k \in 1..ShardCount(i) |-> JsonLoads(ShardLines(i)[k])]

\* the shard files this call has created
CreatedSet == {created[i] : i \in 1..Len(created)}

\* the records of the created shards, in increasing shard index
RECURSIVE RecordsUpTo(_)
RecordsUpTo(k) ==
    IF k = 0 THEN <<>>
    ELSE RecordsUpTo(k - 1) \o (IF k \in CreatedSet THEN ShardRecords(k) ELSE <<>>)

WrittenRecords == RecordsUpTo(MaxRecords + 1)

-----------------------------------------------------------------------------
(* Claims about the sharded writer.  "Shard file" means a file this call     *)
(* created; files of an earlier run that the call never opens are not its   *)
(* shards.                                                                  *)

\* C2: when write_sharded_jsonl returns, the lines of its shard files, read in
\* increasing shard index and decoded, are exactly the input records in input
\* order, one line each, and the returned total is the number of input records.
C2_AllRecordsPersisted ==
    w_pc = "done" =>
        /\ WrittenRecords = recs
        /\ returned = Some(Len(recs))

C2_Witness ==
    /\ w_pc = "done"
    /\ Len(recs) >= 3
    /\ Len(created) >= 2
    /\ \E i \in 1..Len(recs) : recs[i] = R_Escaped

\* C3: with max_records_per_file > 0, in every state of the call every shard
\* file holds at most max_records_per_file records.
C3_ShardBound ==
    max_records_per_file > 0 =>
        \A i \in CreatedSet : ShardCount(i) <= max_records_per_file

C3_Witness ==
    /\ max_records_per_file = 2
    /\ Len(created) = 3
    /\ ShardCount(1) = 2
    /\ w_pc = "done"

ShardsNeeded(n, m) == (n + m - 1) \div m

\* C4: for max_records_per_file = m > 0 and n >= 1 records the call leaves
\* shards 1..k with no gap, k the least number of shards of m records that hold
\* n; each shard before the last holds m records and the last the rest (m = 2,
\* n = 5: counts 2, 2, 1).  The next shard is opened only once the current one
\* holds m records and a further record is waiting, before that record is
\* written.
C4_Rotation ==
    LET m == max_records_per_file
        n == Len(recs)
        k == Len(created)
    IN /\ (w_pc = "done" /\ m > 0 /\ n >= 1) =>
              /\ created = [i \in 1..k |-> i]
              /\ k = ShardsNeeded(n, m)
              /\ \A i \in 1..(k - 1) : ShardCount(i) = m
              /\ ShardCount(k) = n - m * (k - 1)
              /\ (m = 2 /\ n = 5) =>
                     [i \in 1..k |-> ShardCount(created[i])] = <<2, 2, 1>>
       /\ w_pc = "reopen" =>
              /\ m > 0
              /\ ShardCount(shard_index - 1) = m
              /\ open_handles = {}
              /\ rec = Some(recs[pulled])
              /\ written_total = pulled - 1
       /\ w_pc = "write" =>
              /\ created[Len(created)] = shard_index
              /\ ShardCount(shard_index) = 0
              /\ written_total = pulled - 1

C4_Witness ==
    /\ w_pc = "done"
    /\ max_records_per_file = 2
    /\ Len(recs) = 5
    /\ created = <<1, 2, 3>>
    /\ ShardCount(1) = 2 /\ ShardCount(2) = 2 /\ ShardCount(3) = 1

\* C5: at most one shard handle is open at any point; none is open once the
\* call has ended, by return, by the record sequence raising or by open()
\* failing; when the record sequence raises after j records, those j records
\* are in the shard files and the exception leaves the function.
C5_HandleLifecycle ==
    /\ Cardinality(open_handles) <= 1
    /\ w_pc \in {"done", "failed"} => open_handles = {}
    /\ w_pc = "failed" <=> exc # None
    /\ exc # None => returned = None
    /\ exc = Some("RecordsError") =>
           /\ written_total = raise_at - 1
           /\ WrittenRecords = SubSeq(recs, 1, raise_at - 1)

C5_Witness ==
    /\ exc = Some("RecordsError")
    /\ raise_at = 4
    /\ Len(created) = 2
    /\ file_handle = 2
    /\ open_handles = {}

\* C6: shard 1 is created (truncated) before the first record is pulled; an
\* empty record sequence leaves exactly one shard file, shard 1, with no
\* record in it, and the call returns 0.
C6_EagerFirstShard ==
    /\ w_pc = "start" => (pulled = 0 /\ created = <<>>)
    /\ (pulled > 0 \/ w_pc = "done") => (created # <<>> /\ created[1] = 1 /\ fs[1].exists)
    /\ (w_pc = "loop" /\ pulled = 0) => fs[1] = [exists |-> TRUE, data |-> <<>>]
    /\ (w_pc = "done" /\ recs = <<>>) =>
           /\ created = <<1>>
           /\ fs[1] = [exists |-> TRUE, data |-> <<>>]
           /\ \A i \in ShardSlots \ {1} : fs[i] \in {NoFile, [exists |-> TRUE, data |-> StaleData]}
           /\ returned = Some(0)

C6_Witness ==
    /\ w_pc = "done"
    /\ recs = <<>>
    /\ fs[2].exists
    /\ fs[1].data = <<>>

-----------------------------------------------------------------------------
(* The blocks of a file, read off its lines without running the scanner:    *)
(* a block opens at the first line with the opening marker after the        *)
(* previous block's closing line, and closes at the first later line with   *)
(* the closing marker.                                                      *)

\* the least position >= from whose line satisfies P, or 0
FirstFrom(f, from, P(_)) ==
    IF \E i \in from..Len(f) : P(f[i])
    THEN CHOOSE i \in from..Len(f) : P(f[i]) /\ \A k \in from..(i - 1) : ~P(f[k])
    ELSE 0

RECURSIVE ExpectedBlocks(_, _)
ExpectedBlocks(f, from) ==
    LET o == FirstFrom(f, from, IsOpeningLine)
        c == IF o = 0 THEN 0 ELSE FirstFrom(f, o + 1, IsClosingLine)
    IN IF o = 0 \/ c = 0 THEN <<>>
       ELSE <<[title |-> extract_title_from_opening_tag(f[o]),
               content |-> Join(SubSeq(f, o + 1, c - 1))]>> \o ExpectedBlocks(f, c + 1)

\* the position of the opening line of the block f ends in, or 0 if f ends outside
RECURSIVE UnclosedFrom(_, _)
UnclosedFrom(f, from) ==
    LET o == FirstFrom(f, from, IsOpeningLine)
        c == IF o = 0 THEN 0 ELSE FirstFrom(f, o + 1, IsClosingLine)
    IN IF o = 0 THEN 0 ELSE IF c = 0 THEN o ELSE UnclosedFrom(f, c + 1)

-----------------------------------------------------------------------------
(* Further claims about the scanner *)

\* C11: a file that ends inside a block yields no block for the trailing
\* fragment: the blocks emitted are those of the file cut before the opening
\* line of that fragment, in number and in content.
C11_NoFlushAtEof ==
    LET o == UnclosedFrom(file, 1)
    IN (scan_pc = "eof" /\ o # 0) =>
           /\ inside
           /\ Len(blocks) = Len(ExpectedBlocks(SubSeq(file, 1, o - 1), 1))
           /\ blocks = ExpectedBlocks(SubSeq(file, 1, o - 1), 1)

C11_Witness ==
    /\ scan_pc = "eof"
    /\ UnclosedFrom(file, 1) = 3
    /\ Len(blocks) = 1
    /\ inside
    /\ buffer # <<>>

\* the scanner is about to read, inside a block, a line with an opening marker
\* and no closing marker
NestedOpenAhead ==
    /\ scan_pc = "next" /\ pos < Len(file)
    /\ inside
    /\ IsOpeningLine(file[pos + 1]) /\ ~IsClosingLine(file[pos + 1])

\* C15: an opening marker on a line read inside a block is ignored: no block
\* is emitted, the buffer is not reset (the line is appended to it), the title
\* stays the one of the first opening line and the scanner stays inside.
C15_NestedOpenIgnored ==
    [][NestedOpenAhead =>
          /\ blocks' = blocks
          /\ buffer' = Append(buffer, file[pos + 1])
          /\ title_in_tag' = title_in_tag
          /\ inside'
          /\ scan_pc' = "next"]_vars

C15_Witness ==
    /\ scan_pc = "eof"
    /\ file = <<L_OpenTitled(T_Abc), L_Open, L_Text1, L_Close>>
    /\ blocks = <<[title |-> Some(T_Abc), content |-> L_Open \o L_Text1]>>

\* C16: the blocks emitted so far are, in order, the blocks of the lines read
\* so far, each with the lines strictly between its opening and its closing
\* line, verbatim, as content; once the consumer resumes the scanner after a
\* block, the buffer is empty, the title unset and the scanner outside.
C16_BlockContent ==
    /\ blocks = ExpectedBlocks(SubSeq(file, 1, pos), 1)
    /\ scan_pc \in {"yielded", "resume"} =>
           blocks[Len(blocks)].content = Join(buffer)
    /\ (scan_pc \in {"next", "eof"} /\ UnclosedFrom(SubSeq(file, 1, pos), 1) = 0) =>
           (~inside /\ buffer = <<>> /\ title_in_tag = None)
    /\ (scan_pc \in {"next", "eof"} /\ UnclosedFrom(SubSeq(file, 1, pos), 1) # 0) =>
           LET o == UnclosedFrom(SubSeq(file, 1, pos), 1)
           IN inside /\ buffer = SubSeq(file, o + 1, pos)

C16_Witness ==
    /\ scan_pc = "next"
    /\ pos = 4
    /\ file = <<L_Open, L_Text1, L_Text2, L_Close>>
    /\ blocks = <<[title |-> None, content |-> <<"x", "y", "\n", "z", "\n">>]>>
    /\ ~inside /\ buffer = <<>>

\* the scanner is about to read, outside a block, a line with an opening marker
OpeningLineAhead ==
    /\ scan_pc = "next" /\ pos < Len(file)
    /\ ~inside
    /\ IsOpeningLine(file[pos + 1])

\* C18: a line with the opening marker read outside a block moves the scanner
\* inside and emits nothing, also when the line holds the closing marker; the
\* buffer starts empty, so no text of the opening line enters the content.
C18_OpeningLineOnlyOpens ==
    [][OpeningLineAhead =>
          /\ inside'
          /\ blocks' = blocks
          /\ buffer' = <<>>
          /\ scan_pc' = "next"
          /\ pos' = pos + 1]_vars

C18_Witness ==
    /\ pos = 1
    /\ file[1] = L_OneLine
    /\ inside
    /\ blocks = <<>>
    /\ buffer = <<>>
    /\ scan_pc = "next"

-----------------------------------------------------------------------------
(* Further claims about the sharded writer *)

\* C14: with max_records_per_file <= 0 the writer never rotates: shard_index
\* stays 1, shard 1 is the only file the call creates, and it holds every
\* record written.
C14_Unbounded ==
    max_records_per_file <= 0 =>
        /\ shard_index = 1
        /\ w_pc # "reopen"
        /\ created \in {<<>>, <<1>>}
        /\ created = <<1>> => ShardRecords(1) = SubSeq(recs, 1, written_total)
        /\ w_pc = "done" => (created = <<1>> /\ ShardRecords(1) = recs)

C14_Witness ==
    /\ max_records_per_file = 0
    /\ w_pc = "done"
    /\ Len(recs) = 5
    /\ ShardCount(1) = 5

\* C19: no shard after the first is left empty: a shard k > 1 is created only
\* with a record waiting, which is the next thing written to it, so a record
\* count that is a positive multiple of max_records_per_file leaves no empty
\* last shard (4 records, max 2: shards 1 and 2).
C19_NoEmptyLaterShard ==
    LET m == max_records_per_file
        n == Len(recs)
    IN /\ \A k \in CreatedSet :
              k > 1 => \/ ShardCount(k) >= 1
                       \/ w_pc = "write" /\ shard_index = k /\ rec # None
       /\ (w_pc = "done" /\ m > 0 /\ n >= 1 /\ n % m = 0) =>
              /\ Len(created) = n \div m
              /\ ShardCount(created[Len(created)]) = m
       /\ (w_pc = "done" /\ m = 2 /\ n = 4) => created = <<1, 2>>

C19_Witness ==
    /\ w_pc = "done"
    /\ max_records_per_file = 2
    /\ Len(recs) = 4
    /\ created = <<1, 2>>
    /\ ShardCount(2) = 2

\* C12: a second call of the writer with the same records and configuration
\* leaves in every shard file it creates exactly what the first call left
\* there, whatever the directory held before the first call: each shard is
\* truncated when opened, so nothing of its earlier content survives.
C12_Idempotent ==
    /\ (run = 2 /\ w_pc \in {"done", "failed"}) =>
           \A k \in CreatedSet : fs[k] = first_fs[k]
    /\ shard_index \in CreatedSet =>
           /\ ShardCount(shard_index) = record_in_shard
           /\ ShardRecords(shard_index) =
                  SubSeq(recs, written_total - record_in_shard + 1, written_total)

C12_Witness ==
    /\ run = 2
    /\ w_pc = "done"
    /\ created = <<1>>
    /\ ShardCount(1) >= 2
    /\ fs[2].data = StaleData

\* no path names a valid input: the explicit input file is not an existing
\* file, or no file under the directories matches the pattern
NoValidInput ==
    IF input_mode = "file"
    THEN ~disk[1].is_file
    ELSE \A i \in 1..Len(disk) : ~(disk[i].is_file /\ disk[i].matches)

\* C13: when no valid input file exists main raises FileNotFoundError, and it
\* does so before any output: at no point of such a run is the output
\* directory created, a shard opened or written, or anything printed; and main
\* raises in no other case.
C13_FailFast ==
    /\ NoValidInput =>
           /\ out_dir = out_dir_before
           /\ created = <<>>
           /\ open_handles = {}
           /\ w_pc = "idle"
           /\ printed = <<>>
           /\ \A k \in ShardSlots : fs[k] = NoFile \/ fs[k].data = StaleData
           /\ main_pc \in {"start", "resolved", "raised"}
    /\ main_pc = "raised" => NoValidInput /\ main_exc = Some("FileNotFoundError")
    /\ (NoValidInput /\ main_pc \notin {"start", "resolved"}) => main_pc = "raised"

C13_Witness ==
    /\ main_pc = "raised"
    /\ input_mode = "dirs"
    /\ Len(disk) = 2
    /\ disk[1].is_file /\ ~disk[1].matches
    /\ ~out_dir

\* the blocks of the first k input files, file after file
RECURSIVE BlocksOfFiles(_)
BlocksOfFiles(k) ==
    IF k = 0 THEN <<>>
    ELSE BlocksOfFiles(k - 1) \o ExpectedBlocks(disk[files[k]].lines, 1)

\* C17: the scan of every file starts outside a block with an empty buffer and
\* no title, and the blocks produced so far are the blocks of the files already
\* read, each taken on its own, followed by the blocks of the part of the
\* current file read so far; at the end the records handed to the writer, and
\* read back from the shards, are one record per such block in that order.
C17_PerFileScan ==
    /\ (scan_pc = "next" /\ pos = 0) =>
           ~inside /\ buffer = <<>> /\ title_in_tag = None
    /\ file_idx >= 1 =>
           blocks = BlocksOfFiles(file_idx - 1)
                        \o ExpectedBlocks(SubSeq(file, 1, pos), 1)
    /\ (main_pc = "done" /\ ~dry_run) =>
           /\ blocks = BlocksOfFiles(Len(files))
           /\ Len(records) = Len(blocks)
           /\ recs = records
           /\ WrittenRecords = records

C17_Witness ==
    /\ main_pc = "done"
    /\ ~dry_run
    /\ Len(files) = 2
    /\ disk[files[1]].lines = F_Unclosed
    /\ disk[files[2]].lines = F_Stray
    /\ Len(blocks) = 1
    /\ Len(WrittenRecords) = 1

=============================================================================
